---- MODULE Spec2Model ----
(***************************************************************************)
(* Signing session managers of the multisig ceremony                       *)
(* (MultisigClientSigningSessionManager, MultisigSigningSessionManager     *)
(* and inputSigningConfig), with the session relay they talk to.           *)
(*                                                                         *)
(* One ceremony flow runs startSession and then the three rounds           *)
(* getIdentities, getSigningCommitments, getSignatureShares in sequence.   *)
(* A step of the flow is the code between two awaits.  Calls on the relay  *)
(* client (submit*, getSigningStatus) reach the relay in the order they    *)
(* are made; the relay's status messages travel back asynchronously, in    *)
(* order, and are handed to every handler registered on onSigningStatus.   *)
(*                                                                         *)
(* Besides the signing session, the module covers the two RPC routes       *)
(* wallet/multisig/createParticipant and wallet/multisig/createSignature-  *)
(* Share and the identity-creation command MultisigIdentityCreate; a       *)
(* behaviour exercises one of these entry points.  Two further entry       *)
(* points are the pure functions of the block header module: the header    *)
(* comparisons isBlockLater and isBlockHeavier, and transactionMerkleRoot. *)
(***************************************************************************)
EXTENDS Integers, Sequences, FiniteSets, TLC

\* ------------------------------------------------------------------ bounds
MaxSigners == 3    \* largest participant count offered in options, prompts, relay
ExtraPeers == 1    \* contributions beyond those of the numSigners signers
MaxInFlight == 2   \* status messages travelling back to the client at once
MaxPolls == 2      \* status requests issued by one polling loop
MaxAttempts == 3   \* createParticipant calls of one identity-creation command
MaxWork == 1       \* largest accumulated work of a compared header
MaxHashes == 5     \* longest list handed to transactionMerkleRoot
MaxCalls == 2      \* calls of transactionMerkleRoot on one array

\* ------------------------------------------------------------- value sets
\* An optional value: <<>> when undefined, <<v>> when given.
NoValue == <<>>
Some(v) == <<v>>
NoSession == "none"
KnownSession == "s1"   \* a session id known at startup
NewSession == "s2"     \* client.sessionId of a session this client started
Rounds == {1, 2, 3}
Local == "L"       \* the caller's own contribution of a round
Peer == "P"        \* a contribution of some other participant

\* Hexadecimal strings as sequences of characters.
TxHexes == {<<"0", "a">>}               \* offered in options and at the prompt
\* Configuration of a session another participant started: a transaction, and
\* a participant count that passes the minimum and one that does not.
RelayTxHexes == {<<"1", "A", "0">>}
RelayNumSigners == {1, 2}
NumSignersInputs == 1..MaxSigners

\* ------------------------------------------------------------ conversions
\* Value of one hexadecimal character, -1 when it is none.
HexDigit(c) ==
  CASE c = "0" -> 0
    [] c = "1" -> 1
    [] c = "a" -> 10
    [] c = "A" -> 10
    [] c = "f" -> 15
    [] OTHER -> -1

\* Buffer.from(hex, 'hex'): whole pairs of hexadecimal characters, up to the
\* first pair that is not hexadecimal; a trailing single character is dropped.
RECURSIVE BufferFromHex(_)
BufferFromHex(hex) ==
  IF Len(hex) < 2 THEN <<>>
  ELSE IF HexDigit(hex[1]) < 0 \/ HexDigit(hex[2]) < 0 THEN <<>>
  ELSE <<16 * HexDigit(hex[1]) + HexDigit(hex[2])>>
         \o BufferFromHex(SubSeq(hex, 3, Len(hex)))

\* new UnsignedTransaction(Buffer.from(hex, 'hex')): holds the decoded bytes.
UnsignedTransaction(hex) == BufferFromHex(hex)

VARIABLES
  manager,       \* "relayed" | "interactive": which session manager runs
  sessionId,     \* this.sessionId of the relayed manager
  pc,            \* position of the ceremony flow
  trace,         \* prompts and relay calls of the operation in progress
                 \* (startSession or a round), in the order they are made
  config,        \* numSigners, unsignedTransaction of startSession: resolved by
                 \* inputSigningConfig, returned at "configured"
  cfgLocals,     \* locals of getSessionConfig
  handlers,      \* handlers registered on client.onSigningStatus
  collected,     \* identities, signingCommitments, signatureShares of the rounds
  submits,       \* submit calls issued per round
  relayConfig,   \* the relay's session configuration
  relaySets,     \* the relay's accumulated sets, per round
  toClient,      \* status messages on their way to the client
  firstConfig,   \* result of an earlier startSession on the same session id
  entered,       \* values the operator typed at the prompts of an interactive round
  progress,      \* ux.action.status of the round in progress: <<>> before the
                 \* first status and after ux.action.stop(), else <<k, N>>
  entry,         \* the entry point a behaviour exercises
  secrets,       \* wallet: names that hold a multisig secret
  defaultAccount,\* wallet: name of the default account, if any
  cmd,           \* MultisigIdentityCreate.start: position, name, history
  participant,   \* the createParticipant request handled last
  share,         \* the createSignatureShare request handled last
  previous,      \* the createSignatureShare request handled before it
  blocks,        \* the two block headers compared
  heavier,       \* results of the comparisons, once made
  given,         \* the hash list as the caller built it
  hashes,        \* the caller's array, as transactionMerkleRoot leaves it
  roots          \* roots returned by the calls on that array, in order

sessionVars == <<manager, sessionId, pc, trace, config, cfgLocals, handlers,
                 collected, submits, relayConfig, relaySets, toClient,
                 firstConfig, entered, progress>>
rpcVars == <<entry, secrets, defaultAccount, cmd, participant, share, previous>>
chainVars == <<blocks, heavier, given, hashes, roots>>
vars == <<manager, sessionId, pc, trace, config, cfgLocals, handlers,
          collected, submits, relayConfig, relaySets, toClient, firstConfig,
          entered, progress, entry, secrets, defaultAccount, cmd, participant,
          share, previous, blocks, heavier, given, hashes, roots>>

NoConfig == [numSigners |-> 0, unsignedTransaction |-> <<>>]
NoRelayConfig == [numSigners |-> 0, unsignedTransaction |-> <<>>]
InitCfgLocals == [numSigners |-> 0, unsignedTransactionHex |-> <<>>, waiting |-> TRUE]
EmptySets == [r \in Rounds |-> <<>>]

Options ==
  [numSigners : {NoValue} \cup {Some(n) : n \in NumSignersInputs},
   unsignedTransaction : {NoValue} \cup {Some(t) : t \in TxHexes}]

\* ------------------------------------------------------------ positions
Wait(r) == CASE r = 1 -> "identitiesWait"
             [] r = 2 -> "commitmentsWait"
             [] r = 3 -> "sharesWait"
Done(r) == CASE r = 1 -> "identitiesDone"
             [] r = 2 -> "commitmentsDone"
             [] r = 3 -> "sharesDone"
\* The sequential call chain: a round is called when the one before returned.
Before(r) == IF r = 1 THEN "configured" ELSE Done(r - 1)
HandlerOf(r) == CASE r = 1 -> "identities"
                  [] r = 2 -> "signingCommitments"
                  [] r = 3 -> "signatureShares"

\* --------------------------------------------------------------- the relay
\* The status message for the relay's current state.
StatusMessage(sets, cfg) ==
  [identities |-> sets[1],
   signingCommitments |-> sets[2],
   signatureShares |-> sets[3],
   numSigners |-> cfg.numSigners,
   unsignedTransaction |-> cfg.unsignedTransaction]

CountOf(v, s) == Cardinality({i \in 1..Len(s) : s[i] = v})

\* Contributions of round r beyond those of the numSigners - 1 other signers.
Excess(sets, cfg, r) ==
  IF CountOf(Peer, sets[r]) > cfg.numSigners - 1
  THEN CountOf(Peer, sets[r]) - (cfg.numSigners - 1)
  ELSE 0

\* Another participant submits its contribution of round r.  Participants go
\* through the rounds in order: round r opens at the relay once round r - 1
\* holds numSigners contributions, and nobody submits to round r any more once
\* round r + 1 has a contribution.  Besides the contributions of the
\* numSigners - 1 other signers, the relay receives at most ExtraPeers more
\* over the session.
PeerSubmit(r) ==
  /\ relayConfig # NoRelayConfig
  /\ \/ CountOf(Peer, relaySets[r]) < relayConfig.numSigners - 1
     \/ Excess(relaySets, relayConfig, 1) + Excess(relaySets, relayConfig, 2)
          + Excess(relaySets, relayConfig, 3) < ExtraPeers
  /\ r > 1 => Len(relaySets[r - 1]) >= relayConfig.numSigners
  /\ r < 3 => relaySets[r + 1] = <<>>
  /\ relaySets' = [relaySets EXCEPT ![r] = Append(@, Peer)]
  /\ UNCHANGED <<manager, sessionId, pc, trace, config, cfgLocals, handlers,
                 collected, submits, relayConfig, toClient, firstConfig>>
  /\ UNCHANGED <<entered, progress, rpcVars, chainVars>>

\* client.getSigningStatus(): the relay answers with its state at the time of
\* the request; the request or its answer may be lost.
GetSigningStatus(queue, sets, cfg, lost) ==
  IF lost \/ Len(queue) >= MaxInFlight
  THEN queue
  ELSE Append(queue, StatusMessage(sets, cfg))

\* Status requests issued by the operation in progress.
Polls(calls) == CountOf("getSigningStatus", calls)

\* ------------------------------------------------------ onSigningStatus
On(hs, h) == hs \cup {h}
Clear(hs) == {}

\* this.client.onSigningStatus.clear() before an operation returns
HandlersOnReturnLeak(hs) == hs
HandlersOnReturn(hs) == Clear(hs)

\* ------------------------------------------------------- startSession
TooFewOffByOne(numSigners) == numSigners < 1
TooFew(numSigners) == numSigners < 2

inputSigningConfig(options, typedTransaction, typedNumSigners) ==
  LET askTransaction == options.unsignedTransaction = NoValue
      askNumSigners == options.numSigners = NoValue
      unsignedTransaction ==
        IF askTransaction THEN typedTransaction ELSE options.unsignedTransaction[1]
      numSigners ==
        IF askNumSigners THEN typedNumSigners ELSE options.numSigners[1]
  IN [numSigners |-> numSigners,
      unsignedTransaction |-> unsignedTransaction,
      prompts |-> (IF askTransaction THEN <<"longPrompt">> ELSE <<>>)
                    \o (IF askNumSigners THEN <<"inputNumberPrompt">> ELSE <<>>),
      error |-> TooFew(numSigners)]

HasSession(sid) == sid # NoSession

\* The relay interaction of a new session: connect, startSigningSession,
\* waitForJoinedSession, in this order.
SessionStartCallsNoWait == <<"connect", "startSigningSession">>
SessionStartCalls == <<"connect", "startSigningSession", "waitForJoinedSession">>

\* getSessionConfig up to its first sleep: the handler is registered and the
\* first status request is sent.
GetSessionConfigBegin(lost) ==
  /\ cfgLocals' = InitCfgLocals
  /\ handlers' = On(handlers, "config")
  /\ toClient' = GetSigningStatus(toClient, relaySets, relayConfig, lost)
  /\ trace' = <<"joinSession", "getSigningStatus">>
  /\ pc' = "configWait"

\* MultisigClientSigningSessionManager.startSession
ClientStartSession(options) ==
  /\ manager = "relayed"
  /\ pc = "start"
  /\ IF HasSession(sessionId)
     THEN /\ \E lost \in BOOLEAN : GetSessionConfigBegin(lost)
          /\ UNCHANGED <<sessionId, config, relayConfig>>
     ELSE \E typedTransaction \in TxHexes, typedNumSigners \in NumSignersInputs :
            LET in == inputSigningConfig(options, typedTransaction, typedNumSigners)
            IN /\ IF in.error
                  THEN /\ trace' = in.prompts
                       /\ pc' = "failed"
                       /\ config' = [numSigners |-> in.numSigners,
                                     unsignedTransaction |-> <<>>]
                       /\ UNCHANGED <<sessionId, relayConfig>>
                  ELSE /\ trace' = in.prompts \o SessionStartCalls
                       /\ relayConfig' = [numSigners |-> in.numSigners,
                                          unsignedTransaction |-> in.unsignedTransaction]
                       /\ sessionId' = NewSession
                       /\ config' = [numSigners |-> in.numSigners,
                                     unsignedTransaction |->
                                       UnsignedTransaction(in.unsignedTransaction)]
                       /\ pc' = "configured"
               /\ UNCHANGED <<cfgLocals, handlers, toClient>>
  /\ UNCHANGED <<manager, collected, submits, relaySets, firstConfig>>
  /\ UNCHANGED <<entered, progress, rpcVars, chainVars>>

\* MultisigSigningSessionManager.startSession
InteractiveStartSession(options) ==
  /\ manager = "interactive"
  /\ pc = "start"
  /\ \E typedTransaction \in TxHexes, typedNumSigners \in NumSignersInputs :
       LET in == inputSigningConfig(options, typedTransaction, typedNumSigners)
       IN /\ trace' = in.prompts
          /\ IF in.error
             THEN /\ pc' = "failed"
                  /\ config' = [numSigners |-> in.numSigners,
                                unsignedTransaction |-> <<>>]
             ELSE /\ pc' = "configured"
                  /\ config' = [numSigners |-> in.numSigners,
                                unsignedTransaction |->
                                  UnsignedTransaction(in.unsignedTransaction)]
  /\ UNCHANGED <<manager, sessionId, cfgLocals, handlers, collected, submits,
                 relayConfig, relaySets, toClient, firstConfig>>
  /\ UNCHANGED <<entered, progress, rpcVars, chainVars>>

\* The handler getSessionConfig registers.
OnConfigStatusKeepsTransaction(message) ==
  [numSigners |-> message.numSigners,
   unsignedTransactionHex |-> cfgLocals.unsignedTransactionHex,
   waiting |-> FALSE]
OnConfigStatus(message) ==
  [numSigners |-> message.numSigners,
   unsignedTransactionHex |-> message.unsignedTransaction,
   waiting |-> FALSE]

\* The loop test of getSessionConfig: while (waiting)
WaitingNever(locals) == FALSE
Waiting(locals) == locals.waiting

\* getSessionConfig after a sleep: the loop test, then another status request
\* or the return.
GetSessionConfigWake ==
  /\ pc = "configWait"
  /\ IF Waiting(cfgLocals)
     THEN /\ Polls(trace) < MaxPolls
          /\ trace' = Append(trace, "getSigningStatus")
          /\ \E lost \in BOOLEAN :
               toClient' = GetSigningStatus(toClient, relaySets, relayConfig, lost)
          /\ UNCHANGED <<pc, handlers, config, cfgLocals>>
     ELSE /\ handlers' = HandlersOnReturn(handlers)
          /\ config' = [numSigners |-> cfgLocals.numSigners,
                        unsignedTransaction |->
                          UnsignedTransaction(cfgLocals.unsignedTransactionHex)]
          /\ cfgLocals' = InitCfgLocals
          /\ pc' = "configured"
          /\ UNCHANGED <<trace, toClient>>
  /\ UNCHANGED <<manager, sessionId, collected, submits, relayConfig,
                 relaySets, firstConfig>>
  /\ UNCHANGED <<entered, progress, rpcVars, chainVars>>

\* ------------------------------------------------------------ the rounds
SubmitCall(r) == CASE r = 1 -> "submitSigningIdentity"
                   [] r = 2 -> "submitSigningCommitment"
                   [] r = 3 -> "submitSignatureShare"

\* let identities = [identity]
InitialSetEmpty(local) == <<>>
InitialSet(local) == <<local>>

\* The loop test of a round: identities.length < numSigners
IncompleteOffByOne(set, numSigners) == Len(set) < numSigners - 1
IncompleteInverted(set, numSigners) == Len(set) > numSigners
IncompleteOrEqual(set, numSigners) == Len(set) <= numSigners
IncompleteAlways(set, numSigners) == TRUE
Incomplete(set, numSigners) == Len(set) < numSigners

\* ux.action.status = `${identities.length}/${numSigners}`
ActionStatusNext(set, numSigners) == <<Len(set) + 1, numSigners>>
ActionStatus(set, numSigners) == <<Len(set), numSigners>>

\* The handler a round registers: identities = message.identities
OnRoundStatusIdentities(r, message) == message.identities
OnRoundStatusMerged(r, message) ==
  LET reported == CASE r = 1 -> message.identities
                    [] r = 2 -> message.signingCommitments
                    [] r = 3 -> message.signatureShares
      NotLocal(x) == x # Local
  IN <<Local>> \o SelectSeq(reported, NotLocal)
OnRoundStatus(r, message) ==
  CASE r = 1 -> message.identities
    [] r = 2 -> message.signingCommitments
    [] r = 3 -> message.signatureShares

\* A round up to its first sleep (or its return, when the loop is not
\* entered): the local contribution is submitted, the set starts with it,
\* the handler is registered, and the loop is tested.  The set of a round is
\* a local variable of that call: collected[q] of a round that has returned
\* is kept only while a handler that assigns it is still registered.
RoundBegin(r) ==
  /\ manager = "relayed"
  /\ pc = Before(r)
  /\ relaySets' = [relaySets EXCEPT ![r] = Append(@, Local)]
  /\ submits' = [submits EXCEPT ![r] = @ + 1]
  /\ collected' = [q \in Rounds |->
                     IF q = r THEN InitialSet(Local)
                     ELSE IF HandlerOf(q) \in handlers THEN collected[q]
                     ELSE <<>>]
  /\ IF Incomplete(InitialSet(Local), config.numSigners)
     THEN /\ handlers' = On(handlers, HandlerOf(r))
          /\ trace' = <<SubmitCall(r), "getSigningStatus">>
          /\ \E lost \in BOOLEAN :
               toClient' = GetSigningStatus(toClient, relaySets', relayConfig, lost)
          /\ progress' = ActionStatus(InitialSet(Local), config.numSigners)
          /\ pc' = Wait(r)
     ELSE /\ handlers' = HandlersOnReturn(On(handlers, HandlerOf(r)))
          /\ trace' = <<SubmitCall(r)>>
          /\ progress' = <<>>
          /\ pc' = Done(r)
          /\ UNCHANGED toClient
  /\ UNCHANGED <<manager, sessionId, config, cfgLocals, relayConfig,
                 firstConfig>>
  /\ UNCHANGED <<entered, rpcVars, chainVars>>

RoundWakeResubmit(r) ==
  /\ pc = Wait(r)
  /\ IF Incomplete(collected[r], config.numSigners)
     THEN /\ Polls(trace) < MaxPolls
          /\ trace' = trace \o <<SubmitCall(r), "getSigningStatus">>
          /\ submits' = [submits EXCEPT ![r] = @ + 1]
          /\ relaySets' = [relaySets EXCEPT ![r] = Append(@, Local)]
          /\ \E lost \in BOOLEAN :
               toClient' = GetSigningStatus(toClient, relaySets', relayConfig, lost)
          /\ progress' = ActionStatus(collected[r], config.numSigners)
          /\ UNCHANGED <<pc, handlers>>
     ELSE /\ handlers' = HandlersOnReturn(handlers)
          /\ progress' = <<>>
          /\ pc' = Done(r)
          /\ UNCHANGED <<trace, toClient, submits, relaySets>>
  /\ UNCHANGED <<manager, sessionId, config, cfgLocals, collected, relayConfig,
                 firstConfig>>
  /\ UNCHANGED <<entered, rpcVars, chainVars>>

\* A round after a sleep: the loop test, then another status request or
\* the return.
RoundWake(r) ==
  /\ pc = Wait(r)
  /\ IF Incomplete(collected[r], config.numSigners)
     THEN /\ Polls(trace) < MaxPolls
          /\ trace' = Append(trace, "getSigningStatus")
          /\ \E lost \in BOOLEAN :
               toClient' = GetSigningStatus(toClient, relaySets, relayConfig, lost)
          /\ progress' = ActionStatus(collected[r], config.numSigners)
          /\ UNCHANGED <<pc, handlers>>
     ELSE /\ handlers' = HandlersOnReturn(handlers)
          /\ progress' = <<>>
          /\ pc' = Done(r)
          /\ UNCHANGED <<trace, toClient>>
  /\ UNCHANGED <<manager, sessionId, config, cfgLocals, collected, submits,
                 relayConfig, relaySets, firstConfig>>
  /\ UNCHANGED <<entered, rpcVars, chainVars>>

\* ------------------------------------------------- interactive rounds
PeerValues == {"P", "Q"}   \* strings the operator types for the other signers

RECURSIVE SeqsOf(_, _)
SeqsOf(S, n) ==
  IF n <= 0 THEN {<<>>}
  ELSE {Append(q, x) : q \in SeqsOf(S, n - 1), x \in S}

\* ui.collectStrings(label, count, {additionalStrings}): prompts for count
\* strings, one at a time, and returns the additional strings followed by the
\* strings entered, in the order they were entered.
collectStrings(count, additionalStrings, typedValues) ==
  [prompts |-> [i \in 1..count |-> "longPrompt"],
   strings |-> additionalStrings \o typedValues]

\* The count a round of the interactive manager asks for: numSigners - 1
PeerCountAll(numSigners) == numSigners
PeerCount(numSigners) == numSigners - 1

\* A round of MultisigSigningSessionManager: the local contribution is shown,
\* and ui.collectStrings returns the set.
InteractiveRound(r) ==
  /\ manager = "interactive"
  /\ pc = Before(r)
  /\ \E typedValues \in SeqsOf(PeerValues, PeerCount(config.numSigners)) :
       LET got == collectStrings(PeerCount(config.numSigners), <<Local>>,
                                 typedValues)
       IN /\ trace' = got.prompts
          /\ entered' = typedValues
          /\ collected' = [q \in Rounds |-> IF q = r THEN got.strings ELSE <<>>]
  /\ pc' = Done(r)
  /\ UNCHANGED <<manager, sessionId, config, cfgLocals, handlers, submits,
                 relayConfig, relaySets, toClient, firstConfig, progress>>
  /\ UNCHANGED <<rpcVars, chainVars>>

getIdentities == RoundBegin(1) \/ RoundWake(1) \/ InteractiveRound(1)
getSigningCommitments == RoundBegin(2) \/ RoundWake(2) \/ InteractiveRound(2)
getSignatureShares == RoundBegin(3) \/ RoundWake(3) \/ InteractiveRound(3)

\* A status message arrives: onSigningStatus hands it to every registered
\* handler.
Deliver ==
  /\ toClient # <<>>
  /\ LET message == Head(toClient)
     IN /\ cfgLocals' = IF "config" \in handlers
                        THEN OnConfigStatus(message) ELSE cfgLocals
        /\ collected' = [r \in Rounds |->
                           IF HandlerOf(r) \in handlers
                           THEN OnRoundStatus(r, message) ELSE collected[r]]
  /\ toClient' = Tail(toClient)
  /\ UNCHANGED <<manager, sessionId, pc, trace, config, handlers, submits,
                 relayConfig, relaySets, firstConfig>>
  /\ UNCHANGED <<entered, progress, rpcVars, chainVars>>

\* The ceremony is invoked a second time with the same session id: a new
\* manager and a new connection, startSession is called again.
Restart ==
  /\ manager = "relayed"
  /\ pc = "configured"
  /\ sessionId = KnownSession
  /\ firstConfig = NoValue
  /\ firstConfig' = Some(config)
  /\ config' = NoConfig
  /\ toClient' = <<>>
  /\ trace' = <<>>
  /\ pc' = "start"
  /\ UNCHANGED <<manager, sessionId, cfgLocals, handlers, collected, submits,
                 relayConfig, relaySets>>
  /\ UNCHANGED <<entered, progress, rpcVars, chainVars>>

\* ------------------------------------------------------------ the wallet
Names == {"a", "b"}                  \* names offered for a participant identity
\* The identity (a byte buffer) the wallet derives for the secret of a name.
IdentityOf(name) == IF name = "a" THEN <<26, 0>> ELSE <<241, 16>>
DuplicateAccountName == "duplicate-account-name"
OtherError == "error"
Faults == {NoValue, Some(OtherError)}   \* a failure other than a duplicate name

\* wallet.createMultisigSecret(name): fails on a name that already holds a
\* secret, otherwise stores the secret and returns its identity.
createMultisigSecret(held, name, fault) ==
  IF fault # NoValue
  THEN [error |-> fault, identity |-> <<>>, secrets |-> held]
  ELSE IF name \in held
  THEN [error |-> Some(DuplicateAccountName), identity |-> <<>>, secrets |-> held]
  ELSE [error |-> NoValue, identity |-> IdentityOf(name),
        secrets |-> held \cup {name}]

\* The accounts of the wallet: a multisig signer and an account without
\* multisig keys.
AccountNames == {"signer", "plain"}
MultisigKeys(account) ==
  IF account = "signer"
  THEN Some([identity |-> "identity-of-signer", keyPackage |-> "keys-of-signer"])
  ELSE NoValue

\* getAccount(wallet, name): the named account, or the default account when
\* no name is given; NoValue stands for the error it throws.
getAccount(default, name) ==
  IF name = NoValue THEN default
  ELSE IF name[1] \in AccountNames THEN name
  ELSE NoValue

\* AssertMultisigSigner(account) passes
AssertMultisigSigner(account) == MultisigKeys(account) # NoValue

\* ------------------------------------------------ the cryptographic library
\* unsigned.hash(), unsigned.publicKeyRandomness() and createSignatureShare
\* are pure functions of their arguments.
Hash(unsigned) == [hashOf |-> unsigned]
PublicKeyRandomness(unsigned) == [randomnessOf |-> unsigned]
createSignatureShare(call) == [shareOf |-> call]

\* --------------------------------------- wallet/multisig/createParticipant
HexChars == <<"0", "1", "2", "3", "4", "5", "6", "7",
              "8", "9", "a", "b", "c", "d", "e", "f">>

\* identity.toString('hex')
RECURSIVE ToHexSwapped(_)
ToHexSwapped(bytes) ==
  IF bytes = <<>> THEN <<>>
  ELSE <<HexChars[(bytes[1] % 16) + 1], HexChars[(bytes[1] \div 16) + 1]>>
         \o ToHexSwapped(Tail(bytes))
RECURSIVE ToHex(_)
ToHex(bytes) ==
  IF bytes = <<>> THEN <<>>
  ELSE <<HexChars[(bytes[1] \div 16) + 1], HexChars[(bytes[1] % 16) + 1]>>
         \o ToHex(Tail(bytes))

\* The route handler: ended lists the payloads of its request.end calls,
\* error is the error it throws.
CreateParticipantRoute(held, name, fault) ==
  LET made == createMultisigSecret(held, name, fault)
  IN [name |-> name,
      ended |-> IF made.error = NoValue
                THEN <<[identity |-> ToHex(made.identity)]>>
                ELSE <<>>,
      error |-> made.error,
      secrets |-> made.secrets]

RpcCreateParticipant(name, fault) ==
  /\ entry = "createParticipant"
  /\ LET handled == CreateParticipantRoute(secrets, name, fault)
     IN /\ participant' = Some([name |-> handled.name, ended |-> handled.ended,
                                error |-> handled.error, held |-> secrets])
        /\ secrets' = handled.secrets
  /\ UNCHANGED <<entry, defaultAccount, cmd, share, previous>>
  /\ UNCHANGED <<sessionVars, chainVars>>

\* ------------------------------------ wallet/multisig/createSignatureShare
ShareAccounts == {NoValue, Some("signer"), Some("plain"), Some("missing")}
SignerLists ==
  {<<>>,
   <<[identity |-> "i1"], [identity |-> "i2"]>>,
   <<[identity |-> "i2"], [identity |-> "i1"]>>,
   <<[identity |-> "i1"], [identity |-> "i1"]>>}
ShareRequests ==
  [account : ShareAccounts,
   signingPackage : {"signing-package"},
   unsignedTransaction : TxHexes \cup RelayTxHexes,
   signers : SignerLists]

\* getAccount and AssertMultisigSigner both pass
PreconditionExistsOnly(default, data) ==
  getAccount(default, data.account) # NoValue
Precondition(default, data) ==
  /\ getAccount(default, data.account) # NoValue
  /\ AssertMultisigSigner(getAccount(default, data.account)[1])

\* request.data.signers.map((signer) => signer.identity)
SignerIdentitiesReversed(signers) ==
  [i \in 1..Len(signers) |-> signers[Len(signers) + 1 - i].identity]
SignerIdentities(signers) == [i \in 1..Len(signers) |-> signers[i].identity]

\* account.multisigKeys of the resolved account
KeysOf(default, data) ==
  LET keys == MultisigKeys(getAccount(default, data.account)[1])
  IN IF keys = NoValue
     THEN [identity |-> "undefined", keyPackage |-> "undefined"]
     ELSE keys[1]

\* The route handler: libCalls lists the arguments of its calls of the
\* library's createSignatureShare, ended the payloads of its request.end
\* calls, error is the error it throws.
CreateSignatureShareRoute(default, data) ==
  IF ~Precondition(default, data)
  THEN [data |-> data, libCalls |-> <<>>, ended |-> <<>>,
        error |-> Some(IF getAccount(default, data.account) = NoValue
                       THEN "account-not-found" ELSE "not-multisig-signer")]
  ELSE LET unsigned == UnsignedTransaction(data.unsignedTransaction)
           call == [identity |-> KeysOf(default, data).identity,
                    keyPackage |-> KeysOf(default, data).keyPackage,
                    signingPackage |-> data.signingPackage,
                    hash |-> Hash(unsigned),
                    randomness |-> PublicKeyRandomness(unsigned),
                    signers |-> SignerIdentities(data.signers)]
       IN [data |-> data,
           libCalls |-> <<call>>,
           ended |-> <<[signatureShare |-> createSignatureShare(call)]>>,
           error |-> NoValue]

RpcCreateSignatureShare(data) ==
  /\ entry = "createSignatureShare"
  /\ previous' = share
  /\ share' = Some(CreateSignatureShareRoute(defaultAccount, data))
  /\ UNCHANGED <<entry, secrets, defaultAccount, cmd, participant>>
  /\ UNCHANGED <<sessionVars, chainVars>>

\* ------------------------------------------------ MultisigIdentityCreate
FlagNames == {NoValue, Some(""), Some("a")}   \* flags.name
InitCmd == [pc |-> "idle", name |-> NoValue, calls |-> <<>>, errors |-> <<>>,
            typed |-> <<>>, log |-> <<>>]

\* start up to the first createParticipant call: the name is the flag's, or
\* prompted for when the flag is missing.
IdentityCreateStart(flagName, typedName) ==
  /\ entry = "identityCreate"
  /\ cmd.pc = "idle"
  /\ cmd' = [cmd EXCEPT !.pc = "call",
                        !.name = IF flagName = NoValue \/ flagName = Some("")
                                 THEN Some(typedName) ELSE flagName]
  /\ UNCHANGED <<entry, secrets, defaultAccount, participant, share, previous>>
  /\ UNCHANGED <<sessionVars, chainVars>>

\* The catch clause: e instanceof RpcRequestError with the code
\* DUPLICATE_ACCOUNT_NAME
IsDuplicateAny(error) == TRUE
IsDuplicate(error) == error = Some(DuplicateAccountName)

\* One pass of the loop: createParticipant is called with the current name;
\* a response ends the loop and is printed, a duplicate-name error is logged
\* and a new name is prompted for, any other error is thrown.
IdentityCreateCall(fault, typedName) ==
  /\ entry = "identityCreate"
  /\ cmd.pc = "call"
  /\ Len(cmd.calls) < MaxAttempts
  /\ LET handled == CreateParticipantRoute(secrets, cmd.name[1], fault)
     IN /\ secrets' = handled.secrets
        /\ cmd' =
             IF handled.error = NoValue
             THEN [cmd EXCEPT !.pc = "done",
                              !.calls = Append(@, cmd.name[1]),
                              !.log = @ \o <<"Identity:">> \o
                                        <<handled.ended[1].identity>>]
             ELSE IF IsDuplicate(handled.error)
             THEN [cmd EXCEPT !.calls = Append(@, cmd.name[1]),
                              !.errors = Append(@, handled.error[1]),
                              !.log = @ \o <<"", "codeMessage">>,
                              !.typed = Append(@, typedName),
                              !.name = Some(typedName)]
             ELSE [cmd EXCEPT !.pc = "failed",
                              !.calls = Append(@, cmd.name[1]),
                              !.errors = Append(@, handled.error[1])]
  /\ UNCHANGED <<entry, defaultAccount, participant, share, previous>>
  /\ UNCHANGED <<sessionVars, chainVars>>

\* ---------------------------------------------------------- block headers
\* The fields of a BlockHeader that the comparisons read.  A hash is a
\* buffer of bytes, all hashes of one length.
Works == 0..MaxWork
BlockSequences == {1, 2}
Targets == {1, 2}
HashBytes == {0, 255}
BlockHashes == {<<x, y>> : x \in HashBytes, y \in HashBytes}
Headers == [sequence : BlockSequences, target : Targets, work : Works,
            hash : BlockHashes]

\* Target.toDifficulty: the difficulty falls as the target rises.
toDifficulty(target) == (2 ^ 8) \div target

\* Buffer.compare: -1, 0 or 1 by the first byte that differs.
RECURSIVE compare(_, _)
compare(x, y) ==
  IF x = <<>> /\ y = <<>> THEN 0
  ELSE IF x = <<>> THEN -1
  ELSE IF y = <<>> THEN 1
  ELSE IF Head(x) < Head(y) THEN -1
  ELSE IF Head(x) > Head(y) THEN 1
  ELSE compare(Tail(x), Tail(y))

isBlockLater(a, b) ==
  IF a.sequence # b.sequence THEN a.sequence > b.sequence
  ELSE compare(a.hash, b.hash) < 0

\* isBlockHeavier without its first test.
isBlockHeavierBySequence(a, b) ==
  IF a.sequence # b.sequence THEN a.sequence > b.sequence
  ELSE IF toDifficulty(a.target) # toDifficulty(b.target)
    THEN toDifficulty(a.target) > toDifficulty(b.target)
  ELSE compare(a.hash, b.hash) < 0

isBlockHeavier(a, b) ==
  IF a.work # b.work THEN a.work > b.work
  ELSE IF a.sequence # b.sequence THEN a.sequence > b.sequence
  ELSE IF toDifficulty(a.target) # toDifficulty(b.target)
    THEN toDifficulty(a.target) > toDifficulty(b.target)
  ELSE compare(a.hash, b.hash) < 0

\* A caller compares two headers, each with the other and the first with
\* itself.
CompareBlocks ==
  /\ entry = "blockHeader"
  /\ heavier = NoValue
  /\ heavier' = Some([ab |-> isBlockHeavier(blocks[1], blocks[2]),
                      ba |-> isBlockHeavier(blocks[2], blocks[1]),
                      aa |-> isBlockHeavier(blocks[1], blocks[1]),
                      later |-> isBlockLater(blocks[1], blocks[2])])
  /\ UNCHANGED <<blocks, given, hashes, roots>>
  /\ UNCHANGED <<sessionVars, rpcVars>>

\* ------------------------------------------------- transactionMerkleRoot
\* A buffer is the sequence of its parts.  blake3 is injective on what it
\* is given: its digest is written as the hashed bytes between brackets, so
\* Buffer.concat of digests is the concatenation of their sequences.
blake3(data) == <<"blake3[">> \o data \o <<"]">>
TRANSACTION_ROOT_PERSONALIZATION == <<"IRON_FISH_TRANSACTION_ROOT">>
NULL_NODE == blake3(<<"0">>)

TransactionHashes == {blake3(<<"t1">>), blake3(<<"t2">>)}
HashLists == UNION {[1..n -> TransactionHashes] : n \in 0..MaxHashes}

\* Math.ceil(Math.log2(n)) for n >= 1: the least k with 2^k >= n.
RECURSIVE CeilLog2(_)
CeilLog2(n) == IF n <= 1 THEN 0 ELSE 1 + CeilLog2((n + 1) \div 2)

\* perfectSize without the case of a single hash.
perfectSizeOfLog(length) == 2 ^ CeilLog2(length)

perfectSize(length) == IF length = 1 THEN 2 ELSE 2 ^ CeilLog2(length)

\* The array after the loop that pushes NULL_NODE.
Padded(list, size) ==
  list \o [i \in 1..(IF size > Len(list) THEN size - Len(list) ELSE 0)
             |-> NULL_NODE]

\* One pass of the for loop: the hashes of the next level.
NextLevel(currentLevel, currentLevelHashes) ==
  [k \in 1..(Len(currentLevelHashes) \div 2) |->
     blake3(TRANSACTION_ROOT_PERSONALIZATION
            \o <<ToString(currentLevel % 256)>>
            \o currentLevelHashes[2 * k - 1]
            \o currentLevelHashes[2 * k])]

RECURSIVE Levels(_, _)
Levels(currentLevel, currentLevelHashes) ==
  IF Len(currentLevelHashes) > 1
  THEN Levels(currentLevel + 1, NextLevel(currentLevel, currentLevelHashes))
  ELSE currentLevelHashes[1]

\* The value returned and the state in which the argument array is left.
transactionMerkleRoot(list) ==
  IF Len(list) = 0
  THEN [root |-> blake3(TRANSACTION_ROOT_PERSONALIZATION), hashes |-> list]
  ELSE LET padded == Padded(list, perfectSize(Len(list)))
       IN [root |-> Levels(0, padded), hashes |-> padded]

\* A caller hands its array to transactionMerkleRoot, again after the
\* first call.
CallTransactionMerkleRoot ==
  /\ entry = "transactionMerkleRoot"
  /\ Len(roots) < MaxCalls
  /\ LET result == transactionMerkleRoot(hashes)
     IN /\ roots' = Append(roots, result.root)
        /\ hashes' = result.hashes
  /\ UNCHANGED <<blocks, heavier, given>>
  /\ UNCHANGED <<sessionVars, rpcVars>>


\* ------------------------------------------------------- specification
Entries == {"signingSession", "createParticipant", "createSignatureShare",
            "identityCreate", "blockHeader", "transactionMerkleRoot"}

Init ==
  /\ entry \in Entries
  /\ manager \in (IF entry = "signingSession"
                  THEN {"relayed", "interactive"} ELSE {"none"})
  /\ secrets \in (IF entry \in {"createParticipant", "identityCreate"}
                  THEN SUBSET Names ELSE {{}})
  /\ defaultAccount \in (IF entry = "createSignatureShare"
                         THEN {NoValue, Some("signer"), Some("plain")}
                         ELSE {NoValue})
  /\ cmd = InitCmd
  /\ participant = NoValue
  /\ share = NoValue
  /\ previous = NoValue
  /\ blocks \in (IF entry = "blockHeader"
                 THEN Headers \X Headers ELSE {NoValue})
  /\ heavier = NoValue
  /\ given \in (IF entry = "transactionMerkleRoot"
                THEN HashLists ELSE {<<>>})
  /\ hashes = given
  /\ roots = <<>>
  /\ entered = <<>>
  /\ progress = <<>>
  /\ sessionId \in (IF manager = "relayed" THEN {NoSession, KnownSession}
                    ELSE {NoSession})
  /\ relayConfig \in (IF sessionId = NoSession
                      THEN {NoRelayConfig}
                      ELSE [numSigners : RelayNumSigners,
                            unsignedTransaction : RelayTxHexes])
  /\ pc = "start"
  /\ trace = <<>>
  /\ config = NoConfig
  /\ cfgLocals = InitCfgLocals
  /\ handlers = {}
  /\ collected = EmptySets
  /\ submits = [r \in Rounds |-> 0]
  /\ relaySets = EmptySets
  /\ toClient = <<>>
  /\ firstConfig = NoValue

Next ==
  \/ \E options \in Options : ClientStartSession(options)
  \/ \E options \in Options : InteractiveStartSession(options)
  \/ GetSessionConfigWake
  \/ getIdentities
  \/ getSigningCommitments
  \/ getSignatureShares
  \/ Deliver
  \/ \E r \in Rounds : PeerSubmit(r)
  \/ Restart
  \/ \E name \in Names, fault \in Faults : RpcCreateParticipant(name, fault)
  \/ \E data \in ShareRequests : RpcCreateSignatureShare(data)
  \/ \E flagName \in FlagNames, typedName \in Names :
       IdentityCreateStart(flagName, typedName)
  \/ \E fault \in Faults, typedName \in Names :
       IdentityCreateCall(fault, typedName)
  \/ CompareBlocks
  \/ CallTransactionMerkleRoot

Spec == Init /\ [][Next]_vars

\* The sleeps of the polling loops end: a loop that can take its next step
\* takes it.
FairSpec ==
  /\ Spec
  /\ WF_vars(GetSessionConfigWake)
  /\ \A r \in Rounds : WF_vars(RoundWake(r))
\* ------------------------------------------------------------ properties
IsPrefix(s, t) == Len(s) <= Len(t) /\ SubSeq(t, 1, Len(s)) = s
Prompts == {"longPrompt", "inputNumberPrompt"}
Returned == {"configured"} \cup {Done(r) : r \in Rounds}
\* startSession ran inputSigningConfig (no session id was known).
ResolvedLocally == pc \in {"failed", "configured"} /\ sessionId # KnownSession
\* startSession joined the session whose id was known.
Rejoined == pc = "configured" /\ sessionId = KnownSession
Rank(p) ==
  CASE p = "start" -> 0
    [] p = "configWait" -> 1
    [] p \in {"configured", "failed"} -> 2
    [] p = "identitiesWait" -> 3
    [] p = "identitiesDone" -> 4
    [] p = "commitmentsWait" -> 5
    [] p = "commitmentsDone" -> 6
    [] p = "sharesWait" -> 7
    [] p = "sharesDone" -> 8

\* C1 (as stated): for numSigners >= 2, the set a relayed round returns has
\* exactly numSigners entries.
C1_ExactLength ==
  \A r \in Rounds :
    (manager = "relayed" /\ pc = Done(r) /\ config.numSigners >= 2)
      => Len(collected[r]) = config.numSigners

\* C1 (amended): the set a relayed round returns has at least numSigners
\* entries; it has more when the relay's last status message reports more.
C1_AtLeastNumSigners ==
  \A r \in Rounds : pc = Done(r) => Len(collected[r]) >= config.numSigners

C1_Witness ==
  /\ manager = "relayed"
  /\ pc = Done(3)
  /\ config.numSigners >= 2
  /\ Len(collected[3]) = config.numSigners + 1

\* C2 (as stated): the set a relayed round returns has the local contribution
\* at position 0.
C2_LocalFirst ==
  \A r \in Rounds :
    (manager = "relayed" /\ pc = Done(r)) => (collected[r] # <<>> /\ collected[r][1] = Local)

\* C2 (amended): the set of a relayed round is the initial [local] until a
\* status message arrives, and from then on a list the relay reported, in the
\* relay's order (a prefix of the relay's accumulated list): the local
\* contribution is at position 0 only if the relay lists it first.
C2_RelayOrder ==
  \A r \in Rounds :
    (manager = "relayed" /\ pc \in {Wait(r), Done(r)})
      => (collected[r] = <<Local>> \/ IsPrefix(collected[r], relaySets[r]))

C2_Witness ==
  /\ pc = Done(2)
  /\ config.numSigners >= 2
  /\ collected[2][1] = Peer
  /\ collected[2][2] = Local

\* C3 (as stated): when the numSigners resolved from options or prompt is
\* below 2, startSession fails and nothing has happened before the failure:
\* no prompt and no relay interaction.
C3_NothingBeforeFailure ==
  (ResolvedLocally /\ config.numSigners < 2)
    => (pc = "failed" /\ trace = <<>>)

\* C3 (amended): when the numSigners resolved from options or prompt is below
\* 2, startSession of either manager fails before any relay interaction; the
\* prompts for values missing from the options come before the failure.
C3_FailsBeforeRelay ==
  (ResolvedLocally /\ config.numSigners < 2)
    => /\ pc = "failed"
       /\ \A i \in 1..Len(trace) : trace[i] \in Prompts
       /\ relayConfig = NoRelayConfig
       /\ sessionId = NoSession

C3_Witness ==
  /\ manager = "relayed"
  /\ pc = "failed"
  /\ config.numSigners = 1
  /\ trace = <<"longPrompt">>

\* C4: every configuration startSession returns has numSigners >= 2.
C4_ReturnedAtLeastTwo ==
  pc = "configured" => config.numSigners >= 2

\* C5: with a known session id, startSession does not prompt and does not
\* start a session; it returns the relay's configuration, and a second
\* invocation on the same session id returns the same configuration as the
\* first.
C5_RejoinIdempotent ==
  Rejoined
    => /\ \A i \in 1..Len(trace) :
            trace[i] \notin Prompts \cup {"startSigningSession"}
       /\ trace[1] = "joinSession"
       /\ config.numSigners = relayConfig.numSigners
       /\ config.unsignedTransaction = <<26>>
       /\ firstConfig # NoValue => config = firstConfig[1]

C5_Witness ==
  /\ Rejoined
  /\ firstConfig # NoValue
  /\ config.numSigners = 2
\* C6: the rounds run in order with no back-transition: the local commitment
\* is submitted only after getIdentities returned a set of at least numSigners
\* entries, and the local signature share only after getSigningCommitments
\* did.
C6_RoundOrder ==
  [][/\ \A r \in {2, 3} :
          submits'[r] > submits[r]
            => (pc = Done(r - 1) /\ Len(collected[r - 1]) >= config.numSigners)
     /\ Rank(pc) >= Rank("configured") => Rank(pc') >= Rank(pc) \/ pc' = "start"
     /\ Rank(pc) > Rank("configured") => Rank(pc') >= Rank(pc)]_vars

C6_Witness ==
  /\ pc = Wait(3)
  /\ config.numSigners >= 2
  /\ submits = [r \in Rounds |-> 1]

\* C7: at most one signing-status handler is registered at any moment, none
\* when getSessionConfig or a round has returned, and the handler of a round
\* (or of getSessionConfig) is registered only while that operation polls, so
\* a message arriving in a later round cannot reach it.
C7_OneHandler ==
  /\ Cardinality(handlers) <= 1
  /\ pc \in Returned => handlers = {}
  /\ \A r \in Rounds : HandlerOf(r) \in handlers => pc = Wait(r)
  /\ "config" \in handlers => pc = "configWait"

C7_Witness ==
  /\ pc = Wait(2)
  /\ handlers = {HandlerOf(2)}
  /\ toClient # <<>>
  /\ Head(toClient).signingCommitments = <<>>

\* C8: a round whose set has reached numSigners entries eventually returns;
\* a waiting round is left only by its own return, and while the set is
\* incomplete the round keeps polling: it neither returns nor fails.
C8_EventuallyReturns ==
  /\ (\E r \in Rounds : pc = Wait(r) /\ Len(collected[r]) >= config.numSigners)
       ~> (pc \in {Done(r) : r \in Rounds})
  /\ [][\A r \in Rounds :
          /\ pc = Wait(r) => pc' \in {Wait(r), Done(r)}
          /\ (pc = Wait(r) /\ Len(collected[r]) < config.numSigners)
               => pc' = Wait(r)]_vars

C8_Witness ==
  /\ pc = Wait(1)
  /\ Polls(trace) = MaxPolls
  /\ toClient = <<>>
  /\ Len(collected[1]) >= config.numSigners

\* C9: a relayed round submits the local contribution exactly once, as its
\* first relay call; every later call of the round is a status request.
C9_SubmitOnceFirst ==
  \A r \in Rounds :
    /\ submits[r] = (IF manager = "relayed" /\ Rank(pc) >= Rank(Wait(r))
                     THEN 1 ELSE 0)
    /\ CountOf(Local, relaySets[r]) = submits[r]
    /\ (manager = "relayed" /\ pc \in {Wait(r), Done(r)})
         => /\ trace # <<>>
            /\ trace[1] = SubmitCall(r)
            /\ \A i \in 2..Len(trace) : trace[i] = "getSigningStatus"

C9_Witness ==
  /\ pc = Wait(2)
  /\ Polls(trace) = MaxPolls
  /\ submits[2] = 1

\* C10 (as stated): the set of a relayed round starts with length 1 and its
\* length never decreases.
C10_NeverShrinks ==
  [][\A r \in Rounds :
       /\ (pc # Wait(r) /\ pc' = Wait(r)) => Len(collected'[r]) = 1
       /\ (pc = Wait(r) /\ pc' = Wait(r))
            => Len(collected'[r]) >= Len(collected[r])]_vars

\* C10 (amended): the set of a relayed round starts with length 1; its length
\* decreases only when a status message that reports the relay's state from
\* before the local submit replaces the initial [local] by an empty list.
C10_ShrinksOnlyFromInitial ==
  [][\A r \in Rounds :
       /\ (pc # Wait(r) /\ pc' = Wait(r)) => Len(collected'[r]) = 1
       /\ (pc = Wait(r) /\ Len(collected'[r]) < Len(collected[r]))
            => /\ collected[r] = <<Local>>
               /\ collected'[r] = <<>>
               /\ toClient # <<>>
               /\ Local \in {relaySets[r][i] : i \in 1..Len(relaySets[r])}]_vars

C10_Witness ==
  /\ pc = Wait(2)
  /\ collected[2] = <<>>
  /\ relaySets[2] # <<>>

\* ------------------------------------------------- the RPC routes, command
Last(q) == q[Len(q)]
\* The set of a round as a status message carries it.
Reported(r, message) ==
  CASE r = 1 -> message.identities
    [] r = 2 -> message.signingCommitments
    [] r = 3 -> message.signatureShares

\* C11: when the account the createSignatureShare request resolves to does
\* not exist or is not a multisig signer, the handler fails: it has not called
\* the library's createSignatureShare and has not ended the request.
C11_FailsWithoutCall ==
  share # NoValue =>
    LET handled == share[1]
        account == getAccount(defaultAccount, handled.data.account)
    IN (account = NoValue \/ MultisigKeys(account[1]) = NoValue)
         => /\ handled.error # NoValue
            /\ handled.libCalls = <<>>
            /\ handled.ended = <<>>

C11_Witness ==
  /\ share # NoValue
  /\ share[1].data.account = Some("plain")
  /\ share[1].error = Some("not-multisig-signer")
  /\ share[1].libCalls = <<>>

\* C12: a createSignatureShare request that succeeds has called the library
\* once, with the account's identity and key package, the request's signing
\* package, the hash and public-key randomness of the request's unsigned
\* transaction, and the signer identities in request order; the response is
\* the library's result, and a request equal to the one handled before it
\* gets the same response.
C12_PassesThrough ==
  (share # NoValue /\ share[1].error = NoValue) =>
    LET handled == share[1]
        data == handled.data
        keys == MultisigKeys(getAccount(defaultAccount, data.account)[1])[1]
        call == handled.libCalls[1]
        unsigned == BufferFromHex(data.unsignedTransaction)
    IN /\ Len(handled.libCalls) = 1
       /\ call.identity = keys.identity
       /\ call.keyPackage = keys.keyPackage
       /\ call.signingPackage = data.signingPackage
       /\ call.hash = Hash(unsigned)
       /\ call.randomness = PublicKeyRandomness(unsigned)
       /\ Len(call.signers) = Len(data.signers)
       /\ \A i \in 1..Len(data.signers) :
            call.signers[i] = data.signers[i].identity
       /\ handled.ended = <<[signatureShare |-> createSignatureShare(call)]>>
       /\ (previous # NoValue /\ previous[1].data = data)
            => previous[1].ended = handled.ended

C12_Witness ==
  /\ share # NoValue
  /\ previous # NoValue
  /\ share[1].error = NoValue
  /\ share[1].data = previous[1].data
  /\ share[1].data.signers = <<[identity |-> "i2"], [identity |-> "i1"]>>
  /\ share[1].libCalls[1].signers = <<"i2", "i1">>

\* C13: in the identity-creation command every createParticipant call that is
\* followed by another one failed with a duplicate name, and the next call
\* uses the name entered at the prompt that followed; the command fails only
\* on an error that is not a duplicate name, right after the call that raised
\* it; a call that succeeds ends the loop and its identity is printed; no call
\* follows a failure or a success.
C13_RetryOnDuplicate ==
  /\ [](LET n == Len(cmd.calls)
            e == Len(cmd.errors)
        IN /\ \A i \in 1..(n - 1) :
                /\ i <= e
                /\ cmd.errors[i] = DuplicateAccountName
                /\ i <= Len(cmd.typed)
                /\ cmd.calls[i + 1] = cmd.typed[i]
           /\ cmd.pc = "call"
                => /\ e = n
                   /\ Len(cmd.typed) = n
                   /\ \A i \in 1..e : cmd.errors[i] = DuplicateAccountName
                   /\ n > 0 => cmd.name = Some(cmd.typed[n])
           /\ cmd.pc = "failed"
                => /\ e = n
                   /\ n > 0
                   /\ cmd.errors[n] # DuplicateAccountName
           /\ cmd.pc = "done"
                => /\ e = n - 1
                   /\ n > 0
                   /\ Len(cmd.log) >= 2
                   /\ cmd.log[Len(cmd.log) - 1] = "Identity:"
                   /\ BufferFromHex(Last(cmd.log)) = IdentityOf(Last(cmd.calls))
                   /\ Last(cmd.calls) \in secrets)
  /\ [][cmd.pc \in {"failed", "done"} => cmd' = cmd]_vars

C13_Witness ==
  /\ cmd.pc = "done"
  /\ Len(cmd.calls) = 2
  /\ cmd.errors = <<DuplicateAccountName>>
  /\ cmd.calls[1] # cmd.calls[2]

\* C14: a round of the interactive manager asks the operator for exactly
\* numSigners - 1 values, makes no relay call, and returns the local
\* contribution followed by the values in the order they were entered.
C14_InteractiveRound ==
  \A r \in Rounds :
    (manager = "interactive" /\ pc = Done(r))
      => /\ Len(entered) = config.numSigners - 1
         /\ Len(trace) = config.numSigners - 1
         /\ \A i \in 1..Len(trace) : trace[i] \in Prompts
         /\ collected[r] = <<Local>> \o entered
         /\ relaySets = EmptySets
         /\ relayConfig = NoRelayConfig
         /\ toClient = <<>>
         /\ \A q \in Rounds : submits[q] = 0

C14_Witness ==
  /\ manager = "interactive"
  /\ pc = Done(1)
  /\ config.numSigners = 3
  /\ entered = <<"P", "Q">>
  /\ collected[1] = <<"L", "P", "Q">>

\* C15: once the set of a relayed round holds at least numSigners entries (a
\* status message reporting that many has been received), the round issues
\* no further status request: its next step returns the set it holds.
C15_StopsPolling ==
  [][\A r \in Rounds :
       (pc = Wait(r) /\ Len(collected[r]) >= config.numSigners)
         => /\ trace' = trace
            /\ pc' \in {Wait(r), Done(r)}
            /\ pc' = Done(r) => collected'[r] = collected[r]]_vars

C15_Witness ==
  /\ pc = Done(2)
  /\ config.numSigners = 3
  /\ Polls(trace) = 2
  /\ Len(collected[2]) = 3

\* C16 (as stated): the change of size that completes the set of a relayed
\* round is reported: when the round returns, the progress emitted last shows
\* the size of the set.
C16_CompletionReported ==
  [][\A r \in Rounds :
       (pc = Wait(r) /\ pc' = Done(r))
         => progress = <<Len(collected[r]), config.numSigners>>]_vars

\* C16 (amended): progress "k/N" is emitted with every status request of a
\* relayed round, whether or not the size changed, and only then; k is the
\* size of the set when the request is sent, before its answer arrives, so k
\* is below N: the change that completes the set is not reported.
C16_ProgressAtPoll ==
  [][\A r \in Rounds :
       /\ (pc' = Wait(r) /\ trace' # trace)
            => progress' = <<Len(collected'[r]), config.numSigners>>
       /\ (pc' = Wait(r) /\ trace' = trace) => progress' = progress
       /\ pc' = Wait(r) => progress'[1] < config.numSigners
       /\ pc' = Done(r) => progress' = <<>>]_vars

C16_Witness ==
  /\ pc = Wait(2)
  /\ config.numSigners = 3
  /\ Len(collected[2]) = 3
  /\ progress = <<1, 3>>
  /\ Polls(trace) = 2

\* C17 (as stated): the createParticipant handler ends the request exactly
\* once, whether createMultisigSecret succeeds or fails.
C17_EndsExactlyOnce ==
  participant # NoValue => Len(participant[1].ended) = 1

\* C17 (amended): when createMultisigSecret succeeds the createParticipant
\* handler ends the request exactly once, with the hexadecimal encoding of the
\* identity created for the requested name; when it fails (as it does on a
\* name that already holds a secret) the handler does not end the request and
\* the error propagates.
C17_EndsOnSuccessOnly ==
  participant # NoValue =>
    LET handled == participant[1]
    IN /\ handled.error = NoValue
            => /\ Len(handled.ended) = 1
               /\ Len(handled.ended[1].identity) = 2 * Len(IdentityOf(handled.name))
               /\ BufferFromHex(handled.ended[1].identity) = IdentityOf(handled.name)
               /\ handled.name \in secrets
       /\ handled.error # NoValue => handled.ended = <<>>
       /\ handled.name \in handled.held => handled.error # NoValue

C17_Witness ==
  /\ participant # NoValue
  /\ participant[1].error = Some(DuplicateAccountName)
  /\ participant[1].ended = <<>>

\* C18: when no session id is known, the relayed startSession that returns
\* has resolved a numSigners of at least 2 before it connected, has called
\* connect, startSigningSession (once, with the resolved numSigners and
\* unsigned transaction) and waitForJoinedSession in this order after any
\* prompts, has taken the client's session id as its own, and returns the
\* resolved numSigners: the one given in the options when there is one.
C18_NewSession ==
  /\ []((manager = "relayed" /\ pc = "configured" /\ sessionId # KnownSession)
          => /\ sessionId = NewSession
             /\ config.numSigners >= 2
             /\ \E k \in 0..2 :
                  /\ Len(trace) = k + 3
                  /\ \A i \in 1..k : trace[i] \in Prompts
                  /\ SubSeq(trace, k + 1, k + 3)
                       = <<"connect", "startSigningSession", "waitForJoinedSession">>
             /\ relayConfig.numSigners = config.numSigners
             /\ BufferFromHex(relayConfig.unsignedTransaction)
                  = config.unsignedTransaction)
  /\ [](sessionId = NoSession
          => (relayConfig = NoRelayConfig /\ \A i \in 1..Len(trace) : trace[i] \in Prompts))
  /\ [][\A options \in Options :
          (/\ ClientStartSession(options)
           /\ sessionId = NoSession
           /\ pc' = "configured"
           /\ options.numSigners # NoValue)
            => /\ config'.numSigners = options.numSigners[1]
               /\ relayConfig'.numSigners = options.numSigners[1]]_vars

C18_Witness ==
  /\ manager = "relayed"
  /\ pc = "configured"
  /\ sessionId = NewSession
  /\ config.numSigners = 3
  /\ trace = <<"longPrompt", "connect", "startSigningSession",
               "waitForJoinedSession">>

\* C19: getSessionConfig returns only after a status message has been
\* received, and returns the numSigners and the unsigned transaction of the
\* status message received last: never its initial numSigners 0 and empty
\* transaction.
C19_ConfigFromLastMessage ==
  [][/\ (pc = "configWait" /\ pc' = "configWait" /\ cfgLocals' # cfgLocals)
          => /\ toClient # <<>>
             /\ cfgLocals' = [numSigners |-> Head(toClient).numSigners,
                              unsignedTransactionHex |->
                                Head(toClient).unsignedTransaction,
                              waiting |-> FALSE]
     /\ (pc = "configWait" /\ pc' # "configWait")
          => /\ pc' = "configured"
             /\ ~cfgLocals.waiting
             /\ cfgLocals.numSigners # 0
             /\ cfgLocals.unsignedTransactionHex # <<>>
             /\ config'.numSigners = cfgLocals.numSigners
             /\ config'.unsignedTransaction
                  = BufferFromHex(cfgLocals.unsignedTransactionHex)]_vars

C19_Witness ==
  /\ Rejoined
  /\ Polls(trace) = 2
  /\ config.numSigners = 2
  /\ firstConfig = NoValue

LowerHash(x, y) ==
  \E i \in 1..Len(x) :
    /\ x[i] < y[i]
    /\ \A j \in 1..(i - 1) : x[j] = y[j]
\* The decision the ordering makes for a before b: by work, then sequence,
\* then difficulty, then lower hash.
HeavierOrder(a, b) ==
  \/ a.work > b.work
  \/ /\ a.work = b.work
     /\ \/ a.sequence > b.sequence
        \/ /\ a.sequence = b.sequence
           /\ \/ toDifficulty(a.target) > toDifficulty(b.target)
              \/ /\ toDifficulty(a.target) = toDifficulty(b.target)
                 /\ LowerHash(a.hash, b.hash)
Compared == heavier # NoValue
\* C21: isBlockHeavier decides by work, then sequence, then difficulty, then
\* lower hash; it is a strict ordering: no header is heavier than itself, two
\* headers are never each heavier than the other, heavier than a header that
\* is heavier than a third means heavier than the third; and of two headers
\* with different hashes exactly one is heavier than the other.
C21_StrictOrder ==
  Compared =>
    LET a == blocks[1]
        b == blocks[2]
        r == heavier[1]
    IN /\ r.ab = HeavierOrder(a, b)
       /\ r.ba = HeavierOrder(b, a)
       /\ ~r.aa
       /\ ~(r.ab /\ r.ba)
       /\ a.hash # b.hash => (r.ab # r.ba)
       /\ \A c \in Headers :
            r.ab /\ isBlockHeavier(b, c) => isBlockHeavier(a, c)
\* Two headers equal in work, sequence and target but not in hash were
\* compared, and the one of the lower hash alone came out heavier.
C21_Witness ==
  /\ Compared
  /\ blocks[1].work = blocks[2].work
  /\ blocks[1].sequence = blocks[2].sequence
  /\ blocks[1].target = blocks[2].target
  /\ blocks[1].hash = <<0, 255>>
  /\ blocks[2].hash = <<255, 0>>
  /\ heavier[1].ab
  /\ ~heavier[1].ba

\* ---- C22
IsPowerOfTwo(n) == \E k \in 0..n : 2 ^ k = n
Max(m, n) == IF m >= n THEN m ELSE n
\* The root of a complete tree over a list whose length is a power of two,
\* from the top: a node at height h joins the roots of the two halves of its
\* leaves with the level number h - 1.
RECURSIVE TreeRoot(_)
TreeRoot(leaves) ==
  IF Len(leaves) = 1 THEN leaves[1]
  ELSE LET half == Len(leaves) \div 2
       IN blake3(TRANSACTION_ROOT_PERSONALIZATION
                 \o <<ToString(CeilLog2(Len(leaves)) - 1)>>
                 \o TreeRoot(SubSeq(leaves, 1, half))
                 \o TreeRoot(SubSeq(leaves, half + 1, Len(leaves))))
\* C22: after transactionMerkleRoot was called on a non-empty list, the
\* caller's array is the list followed by NULL_NODE entries up to the smallest
\* power of two that is at least max(length, 2); the root returned is that of
\* the complete tree over the padded array; and every later call on the same
\* array returns the root the first call returned.
C22_PadsCallersArray ==
  (roots # <<>> /\ given # <<>>) =>
    /\ IsPowerOfTwo(Len(hashes))
    /\ Len(hashes) >= Max(Len(given), 2)
    /\ Len(hashes) \div 2 < Max(Len(given), 2)
    /\ SubSeq(hashes, 1, Len(given)) = given
    /\ \A i \in (Len(given) + 1)..Len(hashes) : hashes[i] = NULL_NODE
    /\ roots[1] = TreeRoot(hashes)
    /\ \A i \in 1..Len(roots) : roots[i] = roots[1]
\* A list of three hashes was padded to four in the caller's array, and the
\* second call on it returned the root of the first.
C22_Witness ==
  /\ Len(given) = 3
  /\ Len(hashes) = 4
  /\ hashes[4] = NULL_NODE
  /\ Len(roots) = 2
  /\ roots[2] = roots[1]
====
